---- MODULE Spec2Model ----
(***************************************************************************)
(* Model of the Predictability Spectrum Toolkit API server: the           *)
(* POST /api/classify handler, the Gemini adapter classifyWithGemini and  *)
(* the pure helpers (empirical distribution, mental model, exact C).      *)
(*                                                                         *)
(* JavaScript numbers are modelled as exact rationals [n, d] in lowest    *)
(* terms, extended with NaN (0/0) and with a value for `undefined`.       *)
(* Strings are sequences of one-character strings, so that trim(),        *)
(* toLowerCase() and split() are computed and not assumed.                *)
(***************************************************************************)
EXTENDS Integers, Sequences, FiniteSets, TLC

\* ------------------------------------------------------------------------
\* Bounds of the model
\* ------------------------------------------------------------------------
\* Longest responseSamples list of a request.
MaxSamples == 2

\* ------------------------------------------------------------------------
\* Numbers
\* ------------------------------------------------------------------------
Abs(x) == IF x < 0 THEN 0 - x ELSE x

RECURSIVE GCD(_, _)
GCD(a, b) == IF b = 0 THEN a ELSE GCD(b, a % b)

\* The rational n/d in lowest terms with a positive denominator (d # 0).
Rat(n, d) ==
  LET g == GCD(Abs(n), Abs(d))
      s == IF d < 0 THEN 0 - 1 ELSE 1
  IN  [n |-> (s * n) \div g, d |-> (s * d) \div g]

\* JavaScript NaN (the result of 0/0) and the value undefined.
NaN == [n |-> 0, d |-> 0]
undefined == [n |-> 0, d |-> 0 - 1]

IsNum(x) == x.d > 0

Int2Rat(k) == [n |-> k, d |-> 1]
Zero == Int2Rat(0)
One == Int2Rat(1)

\* x + y, x - y, x * y, x / y of JavaScript on finite numbers and NaN.
Add(x, y) == IF IsNum(x) /\ IsNum(y) THEN Rat(x.n * y.d + y.n * x.d, x.d * y.d) ELSE NaN
Sub(x, y) == IF IsNum(x) /\ IsNum(y) THEN Rat(x.n * y.d - y.n * x.d, x.d * y.d) ELSE NaN
Mul(x, y) == IF IsNum(x) /\ IsNum(y) THEN Rat(x.n * y.n, x.d * y.d) ELSE NaN
\* The model's divisions by zero are all 0/0; a nonzero numerator over zero
\* (Infinity in JavaScript) does not occur and is mapped to NaN as well.
Div(x, y) ==
  IF IsNum(x) /\ IsNum(y) /\ y.n # 0 THEN Rat(x.n * y.d, x.d * y.n) ELSE NaN

\* Comparisons; every comparison with NaN is false, as in JavaScript.
Lt(x, y) == IsNum(x) /\ IsNum(y) /\ x.n * y.d < y.n * x.d
Le(x, y) == IsNum(x) /\ IsNum(y) /\ x.n * y.d <= y.n * x.d
Ge(x, y) == Le(y, x)
Gt(x, y) == Lt(y, x)

\* Math.max and Math.min of two values: NaN if either is NaN.
MathMax(x, y) == IF ~IsNum(x) \/ ~IsNum(y) THEN NaN ELSE IF Lt(x, y) THEN y ELSE x
MathMin(x, y) == IF ~IsNum(x) \/ ~IsNum(y) THEN NaN ELSE IF Lt(y, x) THEN y ELSE x

\* Math.round: the nearest integer, halves rounded towards +Infinity.
FloorDiv(a, b) == a \div b
MathRound(x) == IF IsNum(x) THEN Int2Rat(FloorDiv(2 * x.n + x.d, 2 * x.d)) ELSE NaN

\* The || operator on a number: undefined, NaN and 0 are falsy.
OrElse(x, dflt) == IF IsNum(x) /\ x.n # 0 THEN x ELSE dflt

InUnit(x) == Le(Zero, x) /\ Le(x, One)

\* Sum of a sequence of numbers (Array.prototype.reduce with initial 0).
RECURSIVE SumSeq(_)
SumSeq(s) == IF s = <<>> THEN Zero ELSE Add(SumSeq(SubSeq(s, 1, Len(s) - 1)), s[Len(s)])

\* ------------------------------------------------------------------------
\* Strings: sequences of one-character strings
\* ------------------------------------------------------------------------
IsSpace(c) == c = " "

\* String.prototype.trim: remove leading and trailing white space.
RECURSIVE TrimLeft(_)
TrimLeft(s) == IF s # <<>> /\ IsSpace(Head(s)) THEN TrimLeft(Tail(s)) ELSE s
RECURSIVE TrimRight(_)
TrimRight(s) ==
  IF s # <<>> /\ IsSpace(s[Len(s)]) THEN TrimRight(SubSeq(s, 1, Len(s) - 1)) ELSE s
trim(s) == TrimRight(TrimLeft(s))

\* String.prototype.toLowerCase on the model's alphabet.
LowerChar(c) == IF c = "A" THEN "a" ELSE IF c = "B" THEN "b" ELSE c
toLowerCase(s) == [j \in 1..Len(s) |-> LowerChar(s[j])]

\* s.split(/\s+/): the pieces between maximal runs of white space, with an
\* empty first (last) piece when s starts (ends) with white space.
RECURSIVE SplitFrom(_, _, _)
SplitFrom(s, cur, inRun) ==
  IF s = <<>> THEN <<cur>>
  ELSE IF IsSpace(Head(s))
       THEN IF inRun THEN SplitFrom(Tail(s), cur, TRUE)
            ELSE <<cur>> \o SplitFrom(Tail(s), <<>>, TRUE)
       ELSE SplitFrom(Tail(s), Append(cur, Head(s)), FALSE)
splitWords(s) == SplitFrom(s, <<>>, FALSE)

SeqRange(s) == {s[j] : j \in 1..Len(s)}

\* A string is truthy when it is defined and not empty; an absent string
\* field is modelled by the value NoString.
NoString == <<"undefined">>
Truthy(s) == s # NoString /\ s # <<>>

\* ------------------------------------------------------------------------
\* Map<string, number>: keys in insertion order and their values
\* ------------------------------------------------------------------------
MapHas(m, x) == \E j \in 1..Len(m.keys) : m.keys[j] = x
MapIdx(m, x) == CHOOSE j \in 1..Len(m.keys) : m.keys[j] = x
MapGet(m, x) == IF MapHas(m, x) THEN m.val[MapIdx(m, x)] ELSE undefined
MapSize(m) == Len(m.keys)

\* ------------------------------------------------------------------------
\* Pure helpers of the server
\* ------------------------------------------------------------------------
\* scoreToLevel with strict comparisons.
scoreToLevelStrict(pOverall) ==
  IF Gt(pOverall, Rat(9, 10)) THEN Int2Rat(1)
  ELSE IF Gt(pOverall, Rat(65, 100)) THEN Int2Rat(2)
  ELSE IF Gt(pOverall, Rat(35, 100)) THEN Int2Rat(3)
  ELSE IF Gt(pOverall, Rat(15, 100)) THEN Int2Rat(4)
  ELSE Int2Rat(5)

\* scoreToLevel: thresholds 0.9, 0.65, 0.35, 0.15.
scoreToLevel(pOverall) ==
  IF Ge(pOverall, Rat(9, 10)) THEN Int2Rat(1)
  ELSE IF Ge(pOverall, Rat(65, 100)) THEN Int2Rat(2)
  ELSE IF Ge(pOverall, Rat(35, 100)) THEN Int2Rat(3)
  ELSE IF Ge(pOverall, Rat(15, 100)) THEN Int2Rat(4)
  ELSE Int2Rat(5)

\* Math.max(0, Math.min(1, x))
clamp01(x) == MathMax(Zero, MathMin(One, x))

\* counts: for each trimmed non-empty sample, in order of first occurrence,
\* the number of its occurrences (the loop over samples of lines 59-64).
CountSamples(samples) ==
  LET trimmed == [j \in 1..Len(samples) |-> trim(samples[j])]
      first == SelectSeq([j \in 1..Len(samples) |-> j],
                         LAMBDA j : /\ trimmed[j] # <<>>
                                    /\ \A m \in 1..(j - 1) : trimmed[m] # trimmed[j])
  IN  [keys |-> [q \in 1..Len(first) |-> trimmed[first[q]]],
       val |-> [q \in 1..Len(first) |->
                  Cardinality({m \in 1..Len(samples) : trimmed[m] = trimmed[first[q]]})]]

\* The denominator of the masses of P_t: n = samples.length.
EmpiricalDenominator(samples) == Len(samples)

computeEmpiricalDistribution(samples) ==
  LET n == EmpiricalDenominator(samples)
      counts == CountSamples(samples)
  IN  [keys |-> counts.keys,
       val |-> [j \in 1..Len(counts.keys) |-> Div(Int2Rat(counts.val[j]), Int2Rat(n))]]

\* The first x of omega that equals `expected` ignoring case, else `expected`.
RECURSIVE FindBestMatch(_, _)
FindBestMatch(omega, expected) ==
  IF omega = <<>> THEN expected
  ELSE IF toLowerCase(Head(omega)) = toLowerCase(expected) THEN Head(omega)
       ELSE FindBestMatch(Tail(omega), expected)

Epsilon == Rat(1, 100)
MaxOf(a, b) == IF a < b THEN b ELSE a

\* The additive smoothing without the normalisation that follows it.
SmoothWithoutNormalize(Q) ==
  LET uniformMass == Div(Epsilon, Int2Rat(MaxOf(1, MapSize(Q))))
  IN  [keys |-> Q.keys,
       val |-> [j \in 1..Len(Q.keys) |->
                  Add(Mul(Sub(One, Epsilon), Q.val[j]), uniformMass)]]

\* Additive smoothing and normalisation of lines 144-163.
SmoothAndNormalize(Q) ==
  LET uniformMass == Div(Epsilon, Int2Rat(MaxOf(1, MapSize(Q))))
      smoothed == [keys |-> Q.keys,
                   val |-> [j \in 1..Len(Q.keys) |->
                              Add(Mul(Sub(One, Epsilon), Q.val[j]), uniformMass)]]
      sum == SumSeq(smoothed.val)
  IN  IF Gt(sum, Zero)
      THEN [keys |-> smoothed.keys,
            val |-> [j \in 1..Len(smoothed.keys) |-> Div(smoothed.val[j], sum)]]
      ELSE smoothed

\* Q_t^u before smoothing (lines 82-142).
RawQ_t_u(P_t, userExpectations) ==
  LET omega == P_t.keys
      n == Len(omega)
  IN  IF Truthy(userExpectations.expectedOutput)
      THEN
        LET expected == trim(userExpectations.expectedOutput)
            bestMatch == FindBestMatch(omega, expected)
            concentration ==
              IF userExpectations.expectedVariation # undefined
              THEN Sub(One, userExpectations.expectedVariation)
              ELSE Rat(8, 10)
            p_expected == MathMax(Rat(1, 10), MathMin(Rat(95, 100), concentration))
            p_others == Div(Sub(One, p_expected), Int2Rat(MaxOf(1, n - 1)))
            same(x) == x = bestMatch \/ toLowerCase(x) = toLowerCase(bestMatch)
            Q1 == [keys |-> omega,
                   val |-> [j \in 1..n |-> IF same(omega[j]) THEN p_expected ELSE p_others]]
            remaining == Sub(One, p_expected)
            othersCount == n
        IN  IF bestMatch \notin SeqRange(omega) /\ bestMatch # <<>>
            THEN [keys |-> Append(omega, bestMatch),
                  val |-> [j \in 1..(n + 1) |->
                             IF j = n + 1 THEN p_expected
                             ELSE IF ~same(omega[j])
                                  THEN Div(remaining, Int2Rat(othersCount))
                                  ELSE Q1.val[j]]]
            ELSE Q1
      ELSE
        LET uniform == Div(One, Int2Rat(MaxOf(1, n)))
        IN  [keys |-> omega, val |-> [j \in 1..n |-> uniform]]

constructQ_t_u(P_t, userExpectations) ==
  SmoothAndNormalize(RawQ_t_u(P_t, userExpectations))

\* A sequence of numbers sorted descending (Array.prototype.sort((a,b) => b-a)).
RECURSIVE InsertDesc(_, _)
InsertDesc(s, x) ==
  IF s = <<>> THEN <<x>>
  ELSE IF Ge(x, Head(s)) THEN <<x>> \o s
       ELSE <<Head(s)>> \o InsertDesc(Tail(s), x)
RECURSIVE SortDesc(_)
SortDesc(s) == IF s = <<>> THEN <<>> ELSE InsertDesc(SortDesc(Tail(s)), Head(s))

\* theta: the element at index floor(n/2) (from 0) of the masses sorted descending.
MedianIndex(len) == len \div 2
Theta(P_t) == SortDesc(P_t.val)[MedianIndex(Len(P_t.val)) + 1]

\* E_t with a strict comparison.
E_tStrict(P_t) == {j \in 1..Len(P_t.keys) : Gt(P_t.val[j], Theta(P_t))}

\* E_t = {x : P_t(x) >= theta}, as the set of indices of the keys of P_t.
E_t(P_t) == {j \in 1..Len(P_t.keys) : Ge(P_t.val[j], Theta(P_t))}

\* The value returned for "no data"; distinct from every number.
null == [n |-> 0, d |-> 0 - 2]

RECURSIVE SumOver(_, _)
SumOver(S, f) ==
  IF S = {} THEN Zero
  ELSE LET j == CHOOSE e \in S : TRUE IN Add(f[j], SumOver(S \ {j}, f))

computeCExact(P_t, Q_t_u) ==
  IF MapSize(P_t) = 0 THEN null
  ELSE
    LET E == E_t(P_t)
        q(j) == OrElse(MapGet(Q_t_u, P_t.keys[j]), Zero)
        p(j) == OrElse(P_t.val[j], Zero)
        numerator == SumOver(E, [j \in E |-> Mul(p(j), q(j))])
        denominator == SumOver(E, [j \in E |-> p(j)])
    IN  IF E = {} THEN Zero
        ELSE IF denominator = Zero THEN Zero
        ELSE Div(numerator, denominator)

\* computeLExact: null for an empty P_t and exactly 1 for a single outcome.
\* With two or more outcomes the value is clamp01(exp(-lambda * D_KL)), a
\* transcendental number in (0, 1]; the model returns the set of values the
\* handler may see, over-approximated by LExactValues.
LExactValues == {Rat(1, 4), Rat(3, 4), One}
computeLExact(P_t, Q_t_u_smooth) ==
  IF MapSize(P_t) = 0 THEN {null}
  ELSE IF MapSize(P_t) = 1 THEN {One}
  ELSE LExactValues

\* computeModifiers with the expertise rules applied only when the stakes
\* rules were not (one if/else-if chain instead of independent statements).
computeModifiersOneChain(profile) ==
  LET O0 == Rat(6, 10)
      S0 == Rat(6, 10)
      F0 == Rat(6, 10)
      I0 == Rat(5, 10)
      A0 == Rat(5, 10)
      staked == profile.stakes \in {"high", "low"}
      S1 == IF profile.stakes = "high" THEN clamp01(Add(S0, Rat(25, 100)))
            ELSE IF profile.stakes = "low" THEN clamp01(Sub(S0, Rat(1, 10))) ELSE S0
      O1 == IF profile.stakes = "high" THEN clamp01(Add(O0, Rat(1, 10))) ELSE O0
      O2 == IF ~staked /\ profile.expertise = "novice" THEN clamp01(Add(O1, Rat(1, 10)))
            ELSE IF ~staked /\ profile.expertise = "expert" THEN clamp01(Sub(O1, Rat(5, 100)))
            ELSE O1
      F1 == IF ~staked /\ profile.expertise = "novice" THEN clamp01(Add(F0, Rat(1, 10))) ELSE F0
      O3 == IF profile.confidenceBadges THEN clamp01(Add(O2, Rat(15, 100))) ELSE O2
      I1 == IF profile.interruptButton THEN clamp01(Add(I0, Rat(2, 10))) ELSE I0
      S2 == IF profile.safeMode THEN clamp01(Add(S1, Rat(2, 10))) ELSE S1
      O4 == IF profile.rationaleView THEN clamp01(Add(O3, Rat(1, 10))) ELSE O3
      A1 == IF profile.rationaleView THEN clamp01(Add(A0, Rat(5, 100))) ELSE A0
  IN  IF ~profile.present
      THEN [O |-> O0, I |-> I0, X |-> Rat(5, 10), Lp |-> Rat(8, 10),
            F |-> F0, S |-> S0, A |-> A0, D |-> Rat(4, 10)]
      ELSE [O |-> O4, I |-> I1, X |-> Rat(5, 10), Lp |-> Rat(8, 10),
            F |-> F1, S |-> S2, A |-> A1, D |-> Rat(4, 10)]

\* computeModifiers: baselines and the additive rules, each clamped.
NoProfile == [present |-> FALSE, stakes |-> "medium", expertise |-> "intermediate",
              confidenceBadges |-> FALSE, interruptButton |-> FALSE,
              safeMode |-> FALSE, rationaleView |-> FALSE]
computeModifiers(profile) ==
  LET O0 == Rat(6, 10)
      S0 == Rat(6, 10)
      F0 == Rat(6, 10)
      I0 == Rat(5, 10)
      A0 == Rat(5, 10)
      S1 == IF profile.stakes = "high" THEN clamp01(Add(S0, Rat(25, 100)))
            ELSE IF profile.stakes = "low" THEN clamp01(Sub(S0, Rat(1, 10))) ELSE S0
      O1 == IF profile.stakes = "high" THEN clamp01(Add(O0, Rat(1, 10))) ELSE O0
      O2 == IF profile.expertise = "novice" THEN clamp01(Add(O1, Rat(1, 10)))
            ELSE IF profile.expertise = "expert" THEN clamp01(Sub(O1, Rat(5, 100))) ELSE O1
      F1 == IF profile.expertise = "novice" THEN clamp01(Add(F0, Rat(1, 10))) ELSE F0
      O3 == IF profile.confidenceBadges THEN clamp01(Add(O2, Rat(15, 100))) ELSE O2
      I1 == IF profile.interruptButton THEN clamp01(Add(I0, Rat(2, 10))) ELSE I0
      S2 == IF profile.safeMode THEN clamp01(Add(S1, Rat(2, 10))) ELSE S1
      O4 == IF profile.rationaleView THEN clamp01(Add(O3, Rat(1, 10))) ELSE O3
      A1 == IF profile.rationaleView THEN clamp01(Add(A0, Rat(5, 100))) ELSE A0
  IN  IF ~profile.present
      THEN [O |-> O0, I |-> I0, X |-> Rat(5, 10), Lp |-> Rat(8, 10),
            F |-> F0, S |-> S0, A |-> A0, D |-> Rat(4, 10)]
      ELSE [O |-> O4, I |-> I1, X |-> Rat(5, 10), Lp |-> Rat(8, 10),
            F |-> F1, S |-> S2, A |-> A1, D |-> Rat(4, 10)]

\* The level chain without its last branch.
GuidanceByLevelUpTo4(level) ==
  IF level = Int2Rat(1) \/ level = Int2Rat(2) THEN <<"l1-2-interface-baseline">>
  ELSE IF level = Int2Rat(3) THEN <<"l3-expert-controls">>
  ELSE IF level = Int2Rat(4) THEN <<"l4-scaffolds">>
  ELSE <<>>

\* Lines 308-344: the ids pushed by the if/else-if chain on the level.
GuidanceByLevel(level) ==
  IF level = Int2Rat(1) \/ level = Int2Rat(2) THEN <<"l1-2-interface-baseline">>
  ELSE IF level = Int2Rat(3) THEN <<"l3-expert-controls">>
  ELSE IF level = Int2Rat(4) THEN <<"l4-scaffolds">>
  ELSE IF level = Int2Rat(5) THEN <<"l5-advisory-surface">>
  ELSE <<>>

\* computeGuidance: the items as [id, level, category], in emission order.
computeGuidance(level, dims, modifiers, profile) ==
  LET stakes == IF profile.present THEN profile.stakes ELSE "medium"
      expertise == IF profile.present THEN profile.expertise ELSE "intermediate"
      item(id, cat) == <<[id |-> id, level |-> level, category |-> cat]>>
      ids == GuidanceByLevel(level)
      byLevel == IF ids = <<>> THEN <<>> ELSE item(ids[1], "interface")
      safety == IF stakes = "high" \/ Lt(modifiers.S, Rat(7, 10))
                THEN item("safety-high-stakes", "trust") ELSE <<>>
      observ == IF Lt(modifiers.O, Rat(7, 10))
                THEN item("observability-boost", "explanation") ELSE <<>>
      novice == IF expertise = "novice" /\ Ge(level, Int2Rat(3))
                THEN item("novice-transition", "transition") ELSE <<>>
  IN  byLevel \o safety \o observ \o novice

\* The normalized Shannon entropy of counts whose probabilities are
\* count / denom (lines 414-420). With one distinct output maxEntropy is 0 and
\* the result is 0; when every probability is 1/distinct the entropy equals
\* maxEntropy and the result is 1; otherwise it is an irrational number, kept
\* symbolically as the probabilities sorted descending.
AllEqual(s) == \A j \in 1..Len(s) : s[j] = s[1]
SymbolicEntropy(ps) == [n |-> 0, d |-> 0 - 3, of |-> SortDesc(ps)]
NormalizedEntropy(counts, denom) ==
  LET distinct == Len(counts)
      ps == [j \in 1..distinct |-> Div(Int2Rat(counts[j]), Int2Rat(denom))]
  IN  IF distinct <= 1 THEN Zero
      ELSE IF \A j \in 1..distinct : ps[j] = Rat(1, distinct) THEN One
      ELSE SymbolicEntropy(ps)

\* The denominators with the roles of n and validCount exchanged.
VariationDenominatorValid(n, validCount) == validCount
EntropyDenominatorRaw(n, validCount) == n

\* Line 410: the variation rate is distinct / n.
VariationDenominator(n, validCount) == n
\* Line 416: the probabilities of the entropy are count / validCount.
EntropyDenominator(n, validCount) == validCount

NoMetrics == [temporalEntropy |-> undefined, temporalVariationRate |-> undefined]
\* Metrics of zero for a list without a valid sample.
ZeroMetricsWithoutValidSamples == [temporalEntropy |-> Zero, temporalVariationRate |-> Zero]
\* Lines 404-407: the metrics of a list without a valid sample.
MetricsWithoutValidSamples == NoMetrics
computeTemporalMetricsFromSamples(samples) ==
  IF Len(samples) = 0 THEN NoMetrics
  ELSE
    LET n == Len(samples)
        counts == CountSamples(samples)
        validCount == Cardinality({j \in 1..n : trim(samples[j]) # <<>>})
        distinct == MapSize(counts)
    IN  IF validCount = 0 THEN MetricsWithoutValidSamples
        ELSE [temporalEntropy |->
                NormalizedEntropy(counts.val, EntropyDenominator(n, validCount)),
              temporalVariationRate |->
                Div(Int2Rat(distinct), Int2Rat(VariationDenominator(n, validCount)))]

\* ------------------------------------------------------------------------
\* The Gemini adapter: classifyWithGemini(input, samples)
\* ------------------------------------------------------------------------
\* What one call of geminiModel.generateContent can do:
\*   "json"       the text parses as JSON (after stripping code fences),
\*   "embedded"   the text does not parse but its {...} substring does,
\*   "unparsable" neither parses,
\*   "apiError"   the call throws.
\* `parsed` is the parsed object; absent numeric fields are undefined and
\* absent note and rationale are "".
NoFields == [T |-> undefined, C |-> undefined, L |-> undefined, level |-> undefined,
             note |-> "", rationale |-> ""]
OracleParsed ==
  { [NoFields EXCEPT !.T = Rat(9, 10), !.C = Rat(8, 10), !.L = Rat(7, 10),
                     !.level = Int2Rat(2), !.note = "oracle-note", !.rationale = "oracle-rationale"],
    [NoFields EXCEPT !.T = Rat(3, 2), !.C = Rat(0 - 1, 2), !.L = Rat(1, 2), !.level = Int2Rat(7)],
    [NoFields EXCEPT !.T = Rat(3, 10), !.C = Rat(2, 10), !.L = Rat(1, 10)],
    [NoFields EXCEPT !.T = Rat(9, 10), !.level = Int2Rat(4)] }
OracleOutcomes ==
  [kind : {"json"}, parsed : OracleParsed]
  \cup [kind : {"embedded"}, parsed : {CHOOSE r \in OracleParsed : r.note # ""}]
  \cup [kind : {"unparsable", "apiError"}, parsed : {NoFields}]

EmptyResult == [T |-> undefined, C |-> undefined, L |-> undefined, level |-> undefined,
                note |-> "", rationale |-> "", temporalStability |-> undefined]

RECURSIVE MaxSeq(_)
MaxSeq(s) == IF Len(s) = 1 THEN s[1] ELSE MathMax(s[1], MaxSeq(Tail(s)))
RECURSIVE MinSeq(_)
MinSeq(s) == IF Len(s) = 1 THEN s[1] ELSE MathMin(s[1], MinSeq(Tail(s)))

\* The return value with the stability taken over the runs that report a T,
\* whenever there are two of them.
GeminiReturnOverReported(parsedRuns) ==
  IF Len(parsedRuns) = 0 THEN EmptyResult
  ELSE
    LET base == parsedRuns[1]
        reported == SelectSeq(parsedRuns, LAMBDA r : IsNum(r.T))
        tValues == [j \in 1..Len(reported) |-> reported[j].T]
        temporalStability ==
          IF Len(reported) > 1
          THEN MathMax(Zero, MathMin(One, Sub(One, Sub(MaxSeq(tValues), MinSeq(tValues)))))
          ELSE undefined
    IN  [T |-> base.T, C |-> base.C, L |-> base.L, level |-> base.level,
         note |-> base.note, rationale |-> base.rationale,
         temporalStability |-> temporalStability]

\* Lines 529-548: the value returned once the attempt loop has ended.
GeminiReturn(parsedRuns) ==
  IF Len(parsedRuns) = 0 THEN EmptyResult
  ELSE
    LET base == parsedRuns[1]
        tValues == [j \in 1..Len(parsedRuns) |-> parsedRuns[j].T]
        temporalStability ==
          IF Len(parsedRuns) > 1 /\ \A j \in 1..Len(parsedRuns) : IsNum(parsedRuns[j].T)
          THEN MathMax(Zero, MathMin(One, Sub(One, Sub(MaxSeq(tValues), MinSeq(tValues)))))
          ELSE undefined
    IN  [T |-> base.T, C |-> base.C, L |-> base.L, level |-> base.level,
         note |-> base.note, rationale |-> base.rationale,
         temporalStability |-> temporalStability]

\* The adapter before its first attempt.
GeminiStart == [i |-> 0, parsedRuns |-> <<>>, status |-> "running", result |-> EmptyResult]

\* No attempt whose failure ends the adapter.
FirstAttemptNever(i) == FALSE

\* Whether a failure of attempt i ends the adapter (lines 507, 513, 522).
FirstAttempt(i) == i = 0

\* The attempt loop with a first parse failure rethrown instead of returning {}.
GeminiAttemptParseThrows(st, o, samples) ==
  LET next(runs) ==
        IF st.i + 1 < samples
        THEN [st EXCEPT !.i = st.i + 1, !.parsedRuns = runs]
        ELSE [i |-> st.i + 1, parsedRuns |-> runs, status |-> "returned",
              result |-> GeminiReturn(runs)]
  IN  CASE o.kind \in {"json", "embedded"} -> next(Append(st.parsedRuns, o.parsed))
        [] o.kind \in {"unparsable", "apiError"} ->
             IF FirstAttempt(st.i)
             THEN [st EXCEPT !.status = "threw"]
             ELSE next(st.parsedRuns)

\* One iteration of the attempt loop (lines 471-527) on oracle outcome o,
\* followed by the return when the loop is over.
GeminiAttempt(st, o, samples) ==
  LET next(runs) ==
        IF st.i + 1 < samples
        THEN [st EXCEPT !.i = st.i + 1, !.parsedRuns = runs]
        ELSE [i |-> st.i + 1, parsedRuns |-> runs, status |-> "returned",
              result |-> GeminiReturn(runs)]
  IN  CASE o.kind \in {"json", "embedded"} -> next(Append(st.parsedRuns, o.parsed))
        [] o.kind = "unparsable" ->
             IF FirstAttempt(st.i)
             THEN [st EXCEPT !.status = "returned", !.result = EmptyResult]
             ELSE next(st.parsedRuns)
        [] o.kind = "apiError" ->
             IF FirstAttempt(st.i)
             THEN [st EXCEPT !.status = "threw"]
             ELSE next(st.parsedRuns)

\* classifyWithGemini run on the outcomes of its successive oracle calls.
RECURSIVE GeminiRun(_, _, _)
GeminiRun(st, outcomes, samples) ==
  IF st.status # "running" \/ outcomes = <<>> THEN st
  ELSE GeminiRun(GeminiAttempt(st, Head(outcomes), samples), Tail(outcomes), samples)
classifyWithGemini(outcomes, samples) == GeminiRun(GeminiStart, outcomes, samples)

\* ------------------------------------------------------------------------
\* POST /api/classify
\* ------------------------------------------------------------------------
\* The handler's locals dims, level, notes, geminiRationale and
\* temporalStabilityFromClassifier, as initialised in lines 555-565.
DefaultDims == [T |-> Rat(8, 10), C |-> Rat(7, 10), L |-> Rat(6, 10)]
DefaultLevel == Int2Rat(2)
Locals0 == [dims |-> DefaultDims, level |-> DefaultLevel, notes |-> <<>>,
            geminiRationale |-> "", temporalStabilityFromClassifier |-> undefined]

\* Lines 569-572.
MaxClassify == 10
\* The number of samples to classify without the limit.
numSamplesToClassifyUncapped(responseSamples) ==
  IF Len(responseSamples) > 1 THEN Len(responseSamples) ELSE 1
numSamplesToClassify(responseSamples) ==
  IF Len(responseSamples) > 1
  THEN (IF Len(responseSamples) < MaxClassify THEN Len(responseSamples) ELSE MaxClassify)
  ELSE 1

Mean3(d) == Div(Add(Add(d.T, d.C), d.L), Int2Rat(3))
HasDims(r) == r.T # undefined /\ r.C # undefined /\ r.L # undefined
ClampLevel(x) == MathMin(Int2Rat(5), MathMax(Int2Rat(1), MathRound(x)))

\* A per-sample result kept whenever it has a T.
AcceptResultWithT(results, r) ==
  IF r.T # undefined
  THEN Append(results, [T |-> r.T, C |-> r.C, L |-> r.L, level |-> r.level,
                        rationale |-> r.rationale])
  ELSE results

\* Lines 594-602: a per-sample result is kept when it has T, C and L.
AcceptResult(results, r) ==
  IF HasDims(r)
  THEN Append(results, [T |-> r.T, C |-> r.C, L |-> r.L, level |-> r.level,
                        rationale |-> r.rationale])
  ELSE results

\* Lines 633-636: the level of an averaged classification.
AverageLevel(results) ==
  LET reported == SelectSeq(results, LAMBDA r : r.level # undefined)
      avgLevel == Div(SumSeq([j \in 1..Len(reported) |-> OrElse(reported[j].level, Int2Rat(2))]),
                      Int2Rat(Len(reported)))
  IN  ClampLevel(avgLevel)

\* Lines 610-643: averaging of a non-empty list of per-sample results.
AverageResults(loc, results) ==
  LET len == Int2Rat(Len(results))
      col(f) == [j \in 1..Len(results) |-> OrElse(results[j][f], Zero)]
      avgT == Div(SumSeq(col("T")), len)
      avgC == Div(SumSeq(col("C")), len)
      avgL == Div(SumSeq(col("L")), len)
      dimsT == clamp01(avgT)
      tValues == col("T")
      range == Sub(MaxSeq(tValues), MinSeq(tValues))
      stability == clamp01(Sub(One, range))
      blendedT == Add(Mul(Rat(7, 10), dimsT), Mul(Rat(3, 10), stability))
  IN  [dims |-> [T |-> clamp01(blendedT), C |-> clamp01(avgC), L |-> clamp01(avgL)],
       level |-> AverageLevel(results),
       notes |-> Append(loc.notes, "averaged"),
       geminiRationale |-> results[1].rationale,
       temporalStabilityFromClassifier |-> stability]

\* The dimensions taken field by field from one estimator result.
AdoptDimsFieldwise(dims, r) ==
  [T |-> IF r.T # undefined THEN r.T ELSE dims.T,
   C |-> IF r.C # undefined THEN r.C ELSE dims.C,
   L |-> IF r.L # undefined THEN r.L ELSE dims.L]

\* Lines 663-669 and 647-653: the dimensions taken from one estimator result.
AdoptDims(dims, r) ==
  IF HasDims(r) THEN [T |-> r.T, C |-> r.C, L |-> r.L] ELSE dims

\* Lines 646-658: the single classification made after a resultless batch.
FallbackClassification(loc, r) ==
  [loc EXCEPT !.dims = AdoptDims(loc.dims, r),
              !.level = IF r.level # undefined THEN ClampLevel(r.level) ELSE loc.level,
              !.geminiRationale = r.rationale,
              !.notes = Append(loc.notes, "multi-failed-single")]

\* The single classification with the level always derived from the scores.
SingleClassificationHeuristicLevel(loc, r) ==
  LET dims0 == AdoptDims(loc.dims, r)
  IN  [dims |-> dims0,
       level |-> scoreToLevel(Mean3(dims0)),
       notes |-> IF r.note # "" THEN Append(loc.notes, r.note) ELSE loc.notes,
       geminiRationale |-> IF r.rationale # "" THEN r.rationale ELSE loc.geminiRationale,
       temporalStabilityFromClassifier |-> loc.temporalStabilityFromClassifier]

\* Lines 662-694: the single classification of a probe with k = 1.
SingleClassification(loc, r) ==
  LET dims0 == AdoptDims(loc.dims, r)
      blend == r.temporalStability # undefined /\ dims0.T # undefined
      dims1 == IF blend
               THEN [dims0 EXCEPT !.T = clamp01(Add(Mul(Rat(7, 10), dims0.T),
                                                    Mul(Rat(3, 10), r.temporalStability)))]
               ELSE dims0
      notes1 == IF blend THEN Append(loc.notes, "stability-proxy") ELSE loc.notes
      notes2 == IF r.note # "" THEN Append(notes1, r.note) ELSE notes1
  IN  [dims |-> dims1,
       level |-> IF r.level # undefined THEN ClampLevel(r.level)
                 ELSE scoreToLevel(Mean3(dims1)),
       notes |-> notes2,
       geminiRationale |-> IF r.rationale # "" THEN r.rationale ELSE loc.geminiRationale,
       temporalStabilityFromClassifier |->
         IF blend THEN r.temporalStability ELSE loc.temporalStabilityFromClassifier]

\* OuterCatch without the note, and OuterCatch that rethrows.
OuterCatchSilent(loc) == [handled |-> TRUE, loc |-> loc]
OuterCatchRethrow(loc) == [handled |-> FALSE, loc |-> loc]

\* Lines 696-700: the catch of the handler. handled is FALSE when an error
\* of the estimator leaves the handler.
OuterCatch(loc) ==
  [handled |-> TRUE,
   loc |-> [loc EXCEPT !.notes = Append(loc.notes, "gemini-failed-fallback")]]

\* Line 702: the overall score, from the dimensions the estimator stage left.
Overall(estimatorDims, finalDims) == Mean3(estimatorDims)

\* The samples that are classified, in place of all of them.
classifiedResponseSamples(in) ==
  IF Len(in.responseSamples) <= MaxClassify THEN in.responseSamples
  ELSE SubSeq(in.responseSamples, 1, MaxClassify)

\* Line 705: the samples the metrics and P_t are computed from.
allResponseSamples(in) == in.responseSamples

NoExpectations == [present |-> FALSE, expectedOutput |-> NoString,
                   expectedVariation |-> undefined]

\* P_t exists when the request has at least one valid sample.
HasP_tValid(input) ==
  \E j \in 1..Len(input.responseSamples) : trim(input.responseSamples[j]) # <<>>

\* Lines 709-711: P_t exists when the request has at least one sample.
HasP_t(input) == Len(allResponseSamples(input)) > 0
P_tOf(input) == computeEmpiricalDistribution(allResponseSamples(input))

\* The guards of the two refinements (lines 714, 716 and 742).
RefinesC(input) ==
  input.userExpectations.present /\ HasP_t(input)
    /\ input.userExpectations.expectedVariation # undefined
RefinesL(input) ==
  input.userExpectations.present /\ HasP_t(input)
    /\ Truthy(input.userExpectations.expectedOutput) /\ Truthy(input.response)

C_exactOf(input) ==
  computeCExact(P_tOf(input), constructQ_t_u(P_tOf(input), input.userExpectations))

\* The values L_exact can take in the request (null when L is not refined).
L_exactOf(input) ==
  IF RefinesL(input)
  THEN computeLExact(P_tOf(input), constructQ_t_u(P_tOf(input), input.userExpectations))
  ELSE {null}

\* Lines 716-739: C blended with the exact formula, or the alignment proxy.
RefineC(input, loc) ==
  LET C_exact == C_exactOf(input)
      expectedVar == input.userExpectations.expectedVariation
      actualVar == computeTemporalMetricsFromSamples(allResponseSamples(input)).temporalVariationRate
      diff == Sub(expectedVar, actualVar)
      alignment == Sub(One, IF Lt(diff, Zero) THEN Sub(Zero, diff) ELSE diff)
  IN  IF ~RefinesC(input) THEN loc
      ELSE IF C_exact # null
      THEN [loc EXCEPT !.dims.C = clamp01(Add(Mul(Rat(1, 2), loc.dims.C), Mul(Rat(1, 2), C_exact))),
                       !.notes = Append(loc.notes, "C-exact")]
      ELSE IF actualVar # undefined
      THEN [loc EXCEPT !.dims.C = clamp01(Add(Mul(Rat(7, 10), loc.dims.C), Mul(Rat(3, 10), alignment))),
                       !.notes = Append(loc.notes, "C-alignment")]
      ELSE loc

\* Lines 756-760: Jaccard similarity of the words of two strings.
Jaccard(expectedOutput, response) ==
  LET expectedWords == SeqRange(splitWords(toLowerCase(expectedOutput)))
      actualWords == SeqRange(splitWords(toLowerCase(response)))
      intersection == expectedWords \cap actualWords
      union == expectedWords \cup actualWords
  IN  IF Cardinality(union) > 0
      THEN Div(Int2Rat(Cardinality(intersection)), Int2Rat(Cardinality(union)))
      ELSE Zero

\* Lines 742-765: L blended with L_exact, or with the Jaccard proxy.
RefineL(input, loc, L_exact) ==
  LET similarity == Jaccard(input.userExpectations.expectedOutput, input.response)
  IN  IF ~RefinesL(input) THEN loc
      ELSE IF L_exact # null
      THEN [loc EXCEPT !.dims.L = clamp01(Add(Mul(Rat(1, 2), loc.dims.L), Mul(Rat(1, 2), L_exact))),
                       !.notes = Append(loc.notes, "L-exact")]
      ELSE [loc EXCEPT !.dims.L = clamp01(Add(Mul(Rat(6, 10), loc.dims.L), Mul(Rat(4, 10), similarity))),
                       !.notes = Append(loc.notes, "L-jaccard")]

\* Lines 702-787: the ClassificationOutput sent for locals loc.
BuildOutput(input, loc, L_exact) ==
  LET refined == RefineL(input, RefineC(input, loc), L_exact)
      metricsFromSamples == computeTemporalMetricsFromSamples(allResponseSamples(input))
      modifiers == computeModifiers(input.profile)
  IN  [level |-> refined.level,
       dimensions |-> refined.dims,
       overallScore |-> Overall(loc.dims, refined.dims),
       modifiers |-> modifiers,
       metrics |-> [temporalEntropy |-> metricsFromSamples.temporalEntropy,
                    temporalVariationRate |-> metricsFromSamples.temporalVariationRate,
                    temporalStabilityFromClassifier |-> refined.temporalStabilityFromClassifier],
       rationale |-> refined.geminiRationale,
       guidance |-> computeGuidance(refined.level, refined.dims, modifiers, input.profile),
       notes |-> refined.notes,
       version |-> "0.1.0"]

\* ------------------------------------------------------------------------
\* State
\* ------------------------------------------------------------------------
VARIABLES
  input,                  \* req.body of the request being served
  pc,                     \* "idle", or the await the handler is suspended at, or "done"
  i,                      \* loop index of the per-sample loop
  classificationResults,  \* results kept by the per-sample loop
  outstanding,            \* oracle calls issued and not yet answered
  requests,               \* the content of every oracle call issued
  replies,                \* the outcome of every oracle call answered
  branch,                 \* the branch of lines 575-700 the handler has taken
  geminiResult,           \* the result of the fallback or single classification
  L_exact,                \* the value computeLExact returned (null if not called)
  fnIn,                   \* arguments of a helper called on its own
  fnOut                   \* its result

vars == <<input, pc, i, classificationResults, outstanding, requests, replies,
          branch, geminiResult, L_exact, fnIn, fnOut>>
probeVars == <<input, pc, i, classificationResults, outstanding, requests, replies,
               branch, geminiResult, L_exact>>

\* Requests of the model.
SampleStrings == {<<" ">>, <<"a">>, <<"b">>}
SampleLists == UNION {[1..len -> SampleStrings] : len \in 0..MaxSamples}
Expectations ==
  { NoExpectations,
    [present |-> TRUE, expectedOutput |-> NoString, expectedVariation |-> Rat(3, 10)],
    [present |-> TRUE, expectedOutput |-> <<"b">>, expectedVariation |-> undefined],
    [present |-> TRUE, expectedOutput |-> <<"A">>, expectedVariation |-> One] }
Responses == {NoString, <<"a", " ", "c">>}
Profiles ==
  { NoProfile,
    [present |-> TRUE, stakes |-> "high", expertise |-> "novice",
     confidenceBadges |-> TRUE, interruptButton |-> FALSE,
     safeMode |-> FALSE, rationaleView |-> FALSE] }
\* The profile only enters the modifiers and the guidance, so it is varied
\* for requests without expectations only.
Descriptions == {NoString, <<"d">>}
InputsOver(lists) ==
  [systemDescription : {NoString}, prompt : {<<"p">>},
   responseSamples : lists, response : Responses,
   userExpectations : Expectations, profile : {NoProfile}]
  \cup [systemDescription : Descriptions, prompt : {<<"p">>},
        responseSamples : lists, response : {NoString},
        userExpectations : {NoExpectations}, profile : Profiles]
Inputs == InputsOver(SampleLists)
\* Requests that differ in the number of samples only.
LiveInputs == InputsOver(UNION {[1..len -> {<<"a">>}] : len \in 0..MaxSamples})

NoInput == [systemDescription |-> NoString, prompt |-> <<>>,
            responseSamples |-> <<>>, response |-> NoString,
            userExpectations |-> NoExpectations, profile |-> NoProfile]
NoCall == [fn |-> "none"]

\* The `response` of the input given to classifyWithGemini by call idx of the
\* probe: the sample of iteration idx in the per-sample loop (line 590), the
\* request's own response in the fallback and the single classification.
ResponseOfCall(in, k, idx) ==
  IF k > 1 /\ idx < k THEN in.responseSamples[idx + 1] ELSE in.response

\* The content with the user's expertise added to the system description.
GeminiContentWithExpertise(in, response) ==
  [systemDescription |-> IF Truthy(in.systemDescription)
                         THEN in.systemDescription \o <<in.profile.expertise>>
                         ELSE <<"Unspecified system", in.profile.expertise>>,
   prompt |-> IF Truthy(in.prompt) THEN in.prompt ELSE <<>>,
   response |-> IF Truthy(response) THEN response ELSE <<"(none provided)">>]

\* Lines 437-460: the variable parts of the content sent to the oracle for
\* input `in` with its response replaced by `response`.
GeminiContent(in, response) ==
  [systemDescription |-> IF Truthy(in.systemDescription) THEN in.systemDescription
                         ELSE <<"Unspecified system">>,
   prompt |-> IF Truthy(in.prompt) THEN in.prompt ELSE <<>>,
   response |-> IF Truthy(response) THEN response ELSE <<"(none provided)">>]

\* The content of call idx of the probe.
ContentOfCall(in, k, idx) == GeminiContent(in, ResponseOfCall(in, k, idx))

\* The calls issued at once when the per-sample calls are not awaited.
FirstCallsUnawaited(in, k) == [j \in 1..k |-> ContentOfCall(in, k, j - 1)]

\* The oracle calls issued before the handler first suspends: the call of
\* iteration 0, awaited at line 593 (or the single classification, line 662).
FirstCalls(in, k) == <<ContentOfCall(in, k, 0)>>

ProbeIdle ==
  /\ input = NoInput
  /\ pc = "idle"
  /\ i = 0
  /\ classificationResults = <<>>
  /\ outstanding = 0
  /\ requests = <<>>
  /\ replies = <<>>
  /\ branch = "none"
  /\ geminiResult = EmptyResult
  /\ L_exact = null

Init == ProbeIdle /\ fnIn = NoCall /\ fnOut = NoCall

\* The handler's locals when the try statement of lines 574-700 is left.
locals ==
  CASE branch = "averaged" -> AverageResults(Locals0, classificationResults)
    [] branch = "fallback" -> FallbackClassification(Locals0, geminiResult)
    [] branch = "single" -> SingleClassification(Locals0, geminiResult)
    [] branch = "caught" -> OuterCatch(Locals0).loc
    [] OTHER -> Locals0

\* The body sent with res.json (line 787) once the handler is done.
output == BuildOutput(input, locals, L_exact)

\* ------------------------------------------------------------------------
\* Actions of the handler
\* ------------------------------------------------------------------------
\* A request of the set ins arrives; the handler runs to its first oracle call.
RequestOf(ins) ==
  /\ pc = "idle"
  /\ \E in \in ins :
       LET k == numSamplesToClassify(in.responseSamples)
       IN  /\ input' = in
           /\ pc' = IF k > 1 THEN "sample" ELSE "single"
           /\ requests' = FirstCalls(in, k)
           /\ outstanding' = Len(FirstCalls(in, k))
  /\ UNCHANGED <<i, classificationResults, replies, branch, geminiResult, L_exact,
                 fnIn, fnOut>>

\* The handler leaves the try statement by branch b with estimator result r,
\* runs lines 702-787 and responds.
Respond(b, r) ==
  /\ branch' = b
  /\ geminiResult' = r
  /\ \E lx \in L_exactOf(input) : L_exact' = lx
  /\ pc' = "done"
  /\ outstanding' = 0

\* An error nothing catches ends the handler without a response.
Crash ==
  /\ pc' = "crashed"
  /\ outstanding' = 0
  /\ UNCHANGED <<branch, geminiResult, L_exact>>

\* An error thrown by classifyWithGemini outside the per-sample loop.
EstimatorThrew ==
  IF OuterCatch(Locals0).handled THEN Respond("caught", EmptyResult) ELSE Crash

\* A per-sample loop without its catch.
InnerCatchNone(g) == FALSE

\* Lines 603-606: the catch inside the per-sample loop.
InnerCatch(g) == g.status = "threw"

\* The oracle answers the call of per-sample iteration i with an outcome of outs.
SampleReplyOf(outs) ==
  /\ pc = "sample"
  /\ \E o \in outs :
       LET k == numSamplesToClassify(input.responseSamples)
           g == classifyWithGemini(<<o>>, 1)
           results == IF g.status = "threw" THEN classificationResults
                      ELSE AcceptResult(classificationResults, g.result)
       IN  /\ replies' = Append(replies, o)
           /\ IF g.status = "threw" /\ ~InnerCatch(g)
              THEN /\ EstimatorThrew
                   /\ UNCHANGED <<i, classificationResults, requests>>
              ELSE /\ i' = i + 1
                   /\ classificationResults' = results
                   /\ IF i + 1 < k
                      THEN /\ requests' = Append(requests, ContentOfCall(input, k, i + 1))
                           /\ UNCHANGED <<pc, outstanding, branch, geminiResult, L_exact>>
                      ELSE IF Len(results) > 0
                      THEN /\ Respond("averaged", EmptyResult)
                           /\ UNCHANGED requests
                      ELSE /\ pc' = "fallback"
                           /\ requests' = Append(requests, ContentOfCall(input, k, k))
                           /\ UNCHANGED <<outstanding, branch, geminiResult, L_exact>>
  /\ UNCHANGED <<input, fnIn, fnOut>>

\* The oracle answers the fallback call made after a resultless batch.
FallbackReplyOf(outs) ==
  /\ pc = "fallback"
  /\ \E o \in outs :
       LET g == classifyWithGemini(<<o>>, 1)
       IN  /\ replies' = Append(replies, o)
           /\ IF g.status = "threw" THEN EstimatorThrew
              ELSE Respond("fallback", g.result)
  /\ UNCHANGED <<input, i, classificationResults, requests, fnIn, fnOut>>

\* The oracle answers the call of a probe with k = 1.
SingleReplyOf(outs) ==
  /\ pc = "single"
  /\ \E o \in outs :
       LET g == classifyWithGemini(<<o>>, 1)
       IN  /\ replies' = Append(replies, o)
           /\ IF g.status = "threw" THEN EstimatorThrew
              ELSE Respond("single", g.result)
  /\ UNCHANGED <<input, i, classificationResults, requests, fnIn, fnOut>>

Request == RequestOf(Inputs)
SampleReply == SampleReplyOf(OracleOutcomes)
FallbackReply == FallbackReplyOf(OracleOutcomes)
SingleReply == SingleReplyOf(OracleOutcomes)

Next == Request \/ SampleReply \/ FallbackReply \/ SingleReply

Spec == Init /\ [][Next]_vars

\* The handler under fairness: every oracle call returns or fails, so the
\* handler is always resumed. The requests differ in the number of samples;
\* the oracle's outcomes are not restricted.
LiveRequest == RequestOf(LiveInputs)

LiveNext == LiveRequest \/ SampleReply \/ FallbackReply \/ SingleReply

LiveSpec == Init /\ [][LiveNext]_vars /\ WF_vars(LiveNext)

\* The handler on batches of up to MaxBatch samples, told apart by their
\* length (sample j is j times the letter a), without profile or expectations.
MaxBatch == 3
NumberedSamples(len) == [j \in 1..len |-> [c \in 1..j |-> "a"]]
ListInput(len) ==
  [systemDescription |-> NoString, prompt |-> <<"p">>,
   responseSamples |-> NumberedSamples(len), response |-> <<"r">>,
   userExpectations |-> NoExpectations, profile |-> NoProfile]
BatchInputs == {ListInput(len) : len \in 0..MaxBatch}
BatchRequest == RequestOf(BatchInputs)

BatchNext == BatchRequest \/ SampleReply \/ FallbackReply \/ SingleReply

BatchSpec == Init /\ [][BatchNext]_vars

\* The handler on lists longer than the limit of line 571. The oracle either
\* answers with all of T, C and L, each in [0,1], or fails.
MaxCapSamples == 11
CapInputs == {ListInput(len) : len \in 0..MaxCapSamples}
CapOutcomes ==
  {o \in OracleOutcomes :
     \/ o.kind = "apiError"
     \/ o.kind = "json" /\ HasDims(o.parsed) /\ InUnit(o.parsed.T)}
CapRequest == RequestOf(CapInputs)
CapSampleReply == SampleReplyOf(CapOutcomes)
CapFallbackReply == FallbackReplyOf(CapOutcomes)
CapSingleReply == SingleReplyOf(CapOutcomes)

CapNext == CapRequest \/ CapSampleReply \/ CapFallbackReply \/ CapSingleReply

CapSpec == Init /\ [][CapNext]_vars

\* The handler on lists whose tail is not classified or that hold no valid
\* sample. Every oracle call either succeeds with the same answer or fails.
TailOutcomes ==
  {o \in OracleOutcomes :
     \/ o.kind = "apiError"
     \/ o.kind = "json" /\ HasDims(o.parsed) /\ o.parsed.level = undefined}
TailRequest ==
  RequestOf({ [ListInput(0) EXCEPT !.responseSamples = l] :
                l \in {NumberedSamples(MaxCapSamples - 1) \o <<(<<" ">>)>>,
                       NumberedSamples(2), <<(<<" ">>), (<<" ">>)>>, <<>>} })
TailSampleReply == SampleReplyOf(TailOutcomes)
TailFallbackReply == FallbackReplyOf(TailOutcomes)
TailSingleReply == SingleReplyOf(TailOutcomes)

TailNext == TailRequest \/ TailSampleReply \/ TailFallbackReply \/ TailSingleReply

TailSpec == Init /\ [][TailNext]_vars

\* The handler on requests with expectations, among them an expected output
\* that shares a word with the response. Every oracle call either succeeds
\* with T, C and L or fails.
RefineInputs ==
  [systemDescription : {NoString}, prompt : {<<"p">>},
   responseSamples : SampleLists, response : Responses,
   userExpectations :
     Expectations \cup
       {[present |-> TRUE, expectedOutput |-> <<"a">>, expectedVariation |-> Rat(3, 10)]},
   profile : {NoProfile}]
RefineRequest == RequestOf(RefineInputs)

RefineNext == RefineRequest \/ TailSampleReply \/ TailFallbackReply \/ TailSingleReply

RefineSpec == Init /\ [][RefineNext]_vars

\* The single classification with an oracle that answers with T = C = L = s
\* and no level for every score s of a grid, answers with a T alone, does
\* not answer in JSON, or fails.
ScoreSteps == 100
LevelOutcomes ==
  [kind : {"json"},
   parsed : {[NoFields EXCEPT !.T = s, !.C = s, !.L = s] :
               s \in {Rat(step, ScoreSteps) : step \in 0..ScoreSteps}
                       \cup {Rat(90, 100), Rat(65, 100), Rat(35, 100), Rat(15, 100),
                              Rat(3, 2), Rat(0 - 1, 2)}}
              \cup {[NoFields EXCEPT !.T = Rat(1, 10)]}]
  \cup [kind : {"unparsable", "apiError"}, parsed : {NoFields}]
LevelRequest == RequestOf({ListInput(0), ListInput(1)})
LevelSingleReply == SingleReplyOf(LevelOutcomes)

LevelNext == LevelRequest \/ LevelSingleReply

LevelSpec == Init /\ [][LevelNext]_vars

\* ------------------------------------------------------------------------
\* The adapter called on its own with up to MaxAttempts attempts
\* ------------------------------------------------------------------------
MaxAttempts == 3
\* The oracle's outcomes, and a parsed answer without T.
AdapterOutcomes ==
  OracleOutcomes
  \cup {[kind |-> "json",
         parsed |-> [NoFields EXCEPT !.C = Rat(1, 2), !.level = Int2Rat(3)]]}
AdapterInputs == [fn : {"classifyWithGemini"}, samples : 1..MaxAttempts]

\* fnOut holds the adapter's loop state and the outcomes of its oracle calls.
AdapterInit ==
  /\ ProbeIdle
  /\ fnIn \in AdapterInputs
  /\ fnOut = [fn |-> "classifyWithGemini", st |-> GeminiStart, calls |-> <<>>]

\* The oracle answers the call of attempt i (line 473) and the loop goes on.
AdapterAttempt ==
  /\ fnIn.fn = "classifyWithGemini"
  /\ fnOut.st.status = "running"
  /\ \E o \in AdapterOutcomes :
       fnOut' = [fnOut EXCEPT !.st = GeminiAttempt(fnOut.st, o, fnIn.samples),
                              !.calls = Append(fnOut.calls, o)]
  /\ UNCHANGED <<probeVars, fnIn>>

AdapterNext == AdapterAttempt

AdapterSpec == AdapterInit /\ [][AdapterNext]_vars

\* ------------------------------------------------------------------------
\* Helpers called on their own
\* ------------------------------------------------------------------------
\* Bounds of the arguments.
MaxFnSamples == 3
MaxCount == 3

FnStrings == {<<>>, <<" ">>, <<"a">>, <<" ", "a">>, <<"A">>, <<"b">>}
FnSampleLists == UNION {[1..len -> FnStrings] : len \in 0..MaxFnSamples}

\* cnt copies of the string s.
Copies(s, cnt) == [j \in 1..cnt |-> s]
\* Sample lists given by how often "a", "b", "c" and the empty string occur.
CountedSamples ==
  { Copies(<<"a">>, ca) \o Copies(<<"b">>, cb) \o Copies(<<"c">>, cc) \o Copies(<<>>, z) :
      ca \in 0..MaxCount, cb \in 0..MaxCount, cc \in 0..MaxCount, z \in 0..1 }
\* Mental models over "a", "b", "c": every key absent or with a mass of 0, 1/2 or 1.
QKeys == <<(<<"a">>), (<<"b">>), (<<"c">>)>>
QMasses == {undefined, Zero, Rat(1, 2), One}
ArbitraryQ ==
  { LET present == SelectSeq(<<1, 2, 3>>, LAMBDA j : m[j] # undefined)
    IN  [keys |-> [j \in 1..Len(present) |-> QKeys[present[j]]],
         val |-> [j \in 1..Len(present) |-> m[present[j]]]] :
    m \in [1..3 -> QMasses] }

\* Every profile, and the absent one.
FnProfiles ==
  [present : {TRUE}, stakes : {"low", "medium", "high"},
   expertise : {"novice", "intermediate", "expert"},
   confidenceBadges : BOOLEAN, interruptButton : BOOLEAN,
   safeMode : BOOLEAN, rationaleView : BOOLEAN]
  \cup {NoProfile}

\* Modifier scores with O and S below, at and above the threshold 0.7.
FnModifiers ==
  { [computeModifiers(NoProfile) EXCEPT !.O = o, !.S = sf] :
      o \in {Rat(5, 10), Rat(7, 10), One}, sf \in {Rat(5, 10), Rat(7, 10), One} }

\* Expectations with the expected output absent, empty, blank, in and not in
\* the model's outcomes, and the expected variation absent, in and out of [0,1].
FnExpectations ==
  [present : {TRUE},
   expectedOutput : {NoString, <<>>, <<" ">>, <<"a">>, <<"A">>, <<"c">>, <<" ", "b">>},
   expectedVariation : {undefined, Zero, Rat(3, 10), One, Int2Rat(2), Int2Rat(0 - 1)}]

FnInputs ==
  [fn : {"computeEmpiricalDistribution"}, samples : FnSampleLists]
  \cup [fn : {"computeCExact"},
        P_t : {computeEmpiricalDistribution(l) : l \in CountedSamples \ {<<>>}},
        Q_t_u : ArbitraryQ]
  \cup [fn : {"computeTemporalMetricsFromSamples"},
        samples : FnSampleLists \cup CountedSamples]
  \cup [fn : {"computeModifiers"}, profile : FnProfiles]
  \cup [fn : {"constructQ_t_u"},
        P_t : {computeEmpiricalDistribution(l) : l \in FnSampleLists},
        userExpectations : FnExpectations]
  \cup [fn : {"computeGuidance"}, level : {Int2Rat(l) : l \in 1..5},
        modifiers : FnModifiers, profile : FnProfiles]

FnInit == ProbeIdle /\ fnIn \in FnInputs /\ fnOut = NoCall

CallEmpirical ==
  /\ fnIn.fn = "computeEmpiricalDistribution"
  /\ fnOut = NoCall
  /\ fnOut' = [fn |-> fnIn.fn, result |-> computeEmpiricalDistribution(fnIn.samples)]
  /\ UNCHANGED <<probeVars, fnIn>>

CallComputeC ==
  /\ fnIn.fn = "computeCExact"
  /\ fnOut = NoCall
  /\ fnOut' = [fn |-> fnIn.fn, result |-> computeCExact(fnIn.P_t, fnIn.Q_t_u)]
  /\ UNCHANGED <<probeVars, fnIn>>

CallTemporalMetrics ==
  /\ fnIn.fn = "computeTemporalMetricsFromSamples"
  /\ fnOut = NoCall
  /\ fnOut' = [fn |-> fnIn.fn, result |-> computeTemporalMetricsFromSamples(fnIn.samples)]
  /\ UNCHANGED <<probeVars, fnIn>>

CallModifiers ==
  /\ fnIn.fn = "computeModifiers"
  /\ fnOut = NoCall
  /\ fnOut' = [fn |-> fnIn.fn, result |-> computeModifiers(fnIn.profile)]
  /\ UNCHANGED <<probeVars, fnIn>>

CallGuidance ==
  /\ fnIn.fn = "computeGuidance"
  /\ fnOut = NoCall
  /\ fnOut' = [fn |-> fnIn.fn,
               result |-> computeGuidance(fnIn.level, DefaultDims, fnIn.modifiers, fnIn.profile)]
  /\ UNCHANGED <<probeVars, fnIn>>

CallConstructQ ==
  /\ fnIn.fn = "constructQ_t_u"
  /\ fnOut = NoCall
  /\ fnOut' = [fn |-> fnIn.fn,
               result |-> constructQ_t_u(fnIn.P_t, fnIn.userExpectations),
               raw |-> RawQ_t_u(fnIn.P_t, fnIn.userExpectations)]
  /\ UNCHANGED <<probeVars, fnIn>>

FnNext ==
  \/ CallEmpirical \/ CallComputeC \/ CallTemporalMetrics \/ CallModifiers
  \/ CallGuidance \/ CallConstructQ

FnSpec == FnInit /\ [][FnNext]_vars

\* ------------------------------------------------------------------------
\* Properties
\* ------------------------------------------------------------------------
Done == pc = "done"
K == numSamplesToClassify(input.responseSamples)
HasNote(note) == note \in SeqRange(output.notes)
NoRefinement == ~input.userExpectations.present
Levels == {Int2Rat(l) : l \in 1..5}
Parsed(o) == o.kind \in {"json", "embedded"}

\* The number of samples that are non-empty after trimming, and the number
\* of samples that trim to x.
ValidCount(samples) == Cardinality({j \in 1..Len(samples) : trim(samples[j]) # <<>>})
CountOf(samples, x) == Cardinality({j \in 1..Len(samples) : trim(samples[j]) = x})

\* C1: for a sample list with at least one non-empty sample, P_t gives every
\* distinct trimmed non-empty string the mass count(x) / (number of non-empty
\* samples), and the masses sum to 1.
C1_MassesSumToOne ==
  (fnOut.fn = "computeEmpiricalDistribution" /\ ValidCount(fnIn.samples) > 0) =>
    LET P == fnOut.result
    IN  /\ \A j \in 1..MapSize(P) :
             P.val[j] = Rat(CountOf(fnIn.samples, P.keys[j]), ValidCount(fnIn.samples))
        /\ SumSeq(P.val) = One

\* C2: after any probe the output level is one of 1..5, and it is 2 when an
\* averaged multi-sample probe has no result that reports a level.
C2_LevelInRange ==
  Done =>
    /\ output.level \in Levels
    /\ (K > 1 /\ HasNote("averaged")
          /\ \A j \in 1..Len(classificationResults) :
               classificationResults[j].level = undefined)
       => output.level = Int2Rat(2)

\* C3: overallScore is the unweighted mean of the T, C and L of the same output.
C3_OverallIsMeanOfOutput ==
  Done => output.overallScore = Mean3(output.dimensions)

\* C4: each of T, C and L of the output lies in [0,1].
C4_DimensionsInUnit ==
  Done => /\ InUnit(output.dimensions.T)
          /\ InUnit(output.dimensions.C)
          /\ InUnit(output.dimensions.L)

\* C5: with k = 1 and a transport error on the sole attempt, the level is 2,
\* the notes contain the fallback note, T is the default 0.8 and, when no
\* expectations refine them, all dimensions are the defaults.
C5_SoleTransportError ==
  (Done /\ K = 1 /\ replies[1].kind = "apiError") =>
    /\ output.level = Int2Rat(2)
    /\ HasNote("gemini-failed-fallback")
    /\ output.dimensions.T = Rat(8, 10)
    /\ NoRefinement => output.dimensions = [T |-> Rat(8, 10), C |-> Rat(7, 10), L |-> Rat(6, 10)]
C5_Witness ==
  /\ Done /\ K = 1 /\ replies[1].kind = "apiError"
  /\ Len(input.responseSamples) = 1 /\ NoRefinement

\* C6 as claimed: with k > 1, a transport error on the first attempt is fatal:
\* the output has the error note and the default dimensions.
C6_FirstTransportErrorFatal ==
  (Done /\ K > 1 /\ replies[1].kind = "apiError") =>
    /\ HasNote("gemini-failed-fallback")
    /\ NoRefinement => output.dimensions = DefaultDims

\* C6 amended: with k > 1, a transport error on a per-sample attempt, the
\* first one included, is skipped: all k samples are submitted, and the output
\* has the error note exactly when the fallback call made after k resultless
\* attempts fails with a transport error; then the level is 2 and, when no
\* expectations refine them, the dimensions are the defaults.
C6_TransportErrorsSkipped ==
  (Done /\ K > 1) =>
    LET out == output
        noted == "gemini-failed-fallback" \in SeqRange(out.notes)
    IN  /\ Len(requests) >= K
        /\ \A j \in 1..K : requests[j].response = input.responseSamples[j]
        /\ noted <=> (Len(replies) = K + 1 /\ replies[K + 1].kind = "apiError")
        /\ noted =>
             /\ out.level = Int2Rat(2)
             /\ NoRefinement => out.dimensions = DefaultDims
C6_Witness ==
  /\ Done /\ K > 1 /\ replies[1].kind = "apiError"
  /\ HasNote("averaged") /\ ~HasNote("gemini-failed-fallback")
  /\ output.dimensions # DefaultDims

\* C7 as claimed: when the first attempt of a probe returns unparsable text,
\* the output has the default dimensions and a note describing the fallback.
C7_FirstParseFailureNoted ==
  (Done /\ replies[1].kind = "unparsable") =>
    /\ HasNote("gemini-failed-fallback") \/ HasNote("multi-failed-single")
    /\ NoRefinement => output.dimensions = DefaultDims

\* C7 amended: with k = 1, when the sole attempt returns unparsable text the
\* output has level 2 and the default T and, when no expectations refine
\* them, the default dimensions, and no note is added for the failure (the
\* notes are empty when there is no refinement); with k > 1 an unparsable
\* first attempt is skipped and all k samples are submitted.
C7_ParseFailureSilent ==
  /\ (Done /\ K = 1 /\ replies[1].kind = "unparsable") =>
       /\ output.level = Int2Rat(2)
       /\ output.dimensions.T = Rat(8, 10)
       /\ ~HasNote("gemini-failed-fallback")
       /\ NoRefinement => (output.dimensions = DefaultDims /\ output.notes = <<>>)
  /\ (Done /\ K > 1 /\ replies[1].kind = "unparsable") => Len(requests) >= K
C7_Witness ==
  /\ Done /\ K = 1 /\ replies[1].kind = "unparsable"
  /\ NoRefinement /\ output.notes = <<>>

\* C8: every probe completes with a full ClassificationOutput whatever the
\* oracle does, and no failure of the oracle leaves the handler uncaught.
IsClassificationOutput(out) ==
  /\ DOMAIN out = {"level", "dimensions", "overallScore", "modifiers", "metrics",
                   "rationale", "guidance", "notes", "version"}
  /\ DOMAIN out.dimensions = {"T", "C", "L"}
C8_ProbeCompletes ==
  /\ [](pc # "crashed")
  /\ (pc # "idle") ~> (Done /\ IsClassificationOutput(output))
C8_Witness ==
  /\ Done /\ IsClassificationOutput(output)
  /\ K > 1 /\ Len(replies) = K + 1
  /\ \A j \in 1..Len(replies) : replies[j].kind = "apiError"

\* The level of a reported level x: x rounded to the nearest integer (halves
\* upwards) and limited to 1..5.
ExpectedLevel(x) ==
  IF Lt(x, Int2Rat(1)) THEN Int2Rat(1)
  ELSE IF Gt(x, Int2Rat(5)) THEN Int2Rat(5)
  ELSE CHOOSE l \in Levels : Le(Sub(l, Rat(1, 2)), x) /\ Lt(x, Add(l, Rat(1, 2)))

\* C9: with k = 1, no expectations and an estimator result with T, C, L and a
\* level, the output dimensions are the returned ones, the level is the
\* returned level rounded and limited to 1..5, and overallScore is their mean;
\* {0.9, 0.8, 0.7} with level 2 gives level 2 and overall 0.8.
C9_SingleEstimateAdopted ==
  (Done /\ K = 1 /\ NoRefinement /\ Parsed(replies[1])
     /\ HasDims(replies[1].parsed) /\ replies[1].parsed.level # undefined) =>
    LET r == replies[1].parsed
    IN  /\ output.dimensions = [T |-> r.T, C |-> r.C, L |-> r.L]
        /\ output.level = ExpectedLevel(r.level)
        /\ Mul(Int2Rat(3), output.overallScore) = Add(Add(r.T, r.C), r.L)
        /\ (r.T = Rat(9, 10) /\ r.C = Rat(8, 10) /\ r.L = Rat(7, 10) /\ r.level = Int2Rat(2))
             => (output.level = Int2Rat(2) /\ output.overallScore = Rat(8, 10))
C9_Witness ==
  /\ Done /\ K = 1 /\ NoRefinement /\ Parsed(replies[1])
  /\ replies[1].parsed.T = Rat(9, 10) /\ replies[1].parsed.level = Int2Rat(2)
  /\ output.overallScore = Rat(8, 10) /\ output.level = Int2Rat(2)

\* C10: computeC returns null exactly for an empty P_t; for a non-empty P_t
\* and a Q with masses in [0,1] it returns a value in [0,1], and E_t is not empty.
C10_ComputeCRange ==
  fnOut.fn = "computeCExact" =>
    /\ fnOut.result = null <=> MapSize(fnIn.P_t) = 0
    /\ MapSize(fnIn.P_t) > 0 =>
         /\ InUnit(fnOut.result)
         /\ E_t(fnIn.P_t) # {}
C10_Witness ==
  /\ fnOut.fn = "computeCExact"
  /\ MapSize(fnIn.P_t) = 3
  /\ Cardinality(E_t(fnIn.P_t)) = 2
  /\ Gt(fnOut.result, Zero) /\ Lt(fnOut.result, One)

\* The distinct non-empty trimmed strings of a sample list, and the list
\* without its blank samples.
DistinctValid(samples) == {trim(samples[j]) : j \in 1..Len(samples)} \ {<<>>}
WithoutBlanks(samples) == SelectSeq(samples, LAMBDA x : trim(x) # <<>>)

\* C11: for a sample list with at least one non-empty sample, variationRate is
\* (number of distinct non-empty trimmed strings) / (number of samples, blank
\* ones included): 1/3 for three equal samples, 1 for three distinct ones, and
\* below 1 as soon as the list has a blank entry.
C11_VariationRateOverRawCount ==
  (fnOut.fn = "computeTemporalMetricsFromSamples" /\ ValidCount(fnIn.samples) > 0) =>
    LET rate == fnOut.result.temporalVariationRate
    IN  /\ rate = Rat(Cardinality(DistinctValid(fnIn.samples)), Len(fnIn.samples))
        /\ fnIn.samples = <<(<<"a">>), (<<"a">>), (<<"a">>)>> => rate = Rat(1, 3)
        /\ fnIn.samples = <<(<<"a">>), (<<"b">>), (<<"c">>)>> => rate = One
        /\ ValidCount(fnIn.samples) < Len(fnIn.samples) => Lt(rate, One)
C11_Witness ==
  /\ fnOut.fn = "computeTemporalMetricsFromSamples"
  /\ Len(fnIn.samples) = 3 /\ ValidCount(fnIn.samples) = 2
  /\ Cardinality(DistinctValid(fnIn.samples)) = 2
  /\ fnOut.result.temporalVariationRate = Rat(2, 3)

\* C12: the normalized entropy is computed over the non-empty samples only: it
\* is 0 with exactly one distinct valid output, 1 with at least two distinct
\* valid outputs that occur equally often, and equal to the entropy of the
\* list without its blank samples.
C12_EntropyOverValidSamples ==
  (fnOut.fn = "computeTemporalMetricsFromSamples" /\ ValidCount(fnIn.samples) > 0) =>
    LET H == fnOut.result.temporalEntropy
        distinct == DistinctValid(fnIn.samples)
    IN  /\ Cardinality(distinct) = 1 => H = Zero
        /\ (Cardinality(distinct) >= 2
              /\ \A x, y \in distinct : CountOf(fnIn.samples, x) = CountOf(fnIn.samples, y))
             => H = One
        /\ H = computeTemporalMetricsFromSamples(WithoutBlanks(fnIn.samples)).temporalEntropy
C12_Witness ==
  /\ fnOut.fn = "computeTemporalMetricsFromSamples"
  /\ ValidCount(fnIn.samples) < Len(fnIn.samples)
  /\ Cardinality(DistinctValid(fnIn.samples)) = 2
  /\ fnOut.result.temporalEntropy = One

\* The adjustment a rule contributes when its condition holds.
When(cond, adj) == IF cond THEN adj ELSE Zero

\* C13: every modifier is clamp01(baseline + sum of the adjustments of the
\* rules that apply to its field), whatever the order of the rules; stakes
\* high, expertise novice and confidence badges give O = 0.95 and S = 0.85;
\* X, Lp and D keep their baselines 0.5, 0.8 and 0.4.
C13_ModifiersAreClampedSums ==
  fnOut.fn = "computeModifiers" =>
    LET p == fnIn.profile
        m == fnOut.result
        on(c) == p.present /\ c
        O == <<When(on(p.stakes = "high"), Rat(1, 10)),
               When(on(p.expertise = "novice"), Rat(1, 10)),
               When(on(p.expertise = "expert"), Rat(0 - 5, 100)),
               When(on(p.confidenceBadges), Rat(15, 100)),
               When(on(p.rationaleView), Rat(1, 10))>>
        S == <<When(on(p.stakes = "high"), Rat(25, 100)),
               When(on(p.stakes = "low"), Rat(0 - 1, 10)),
               When(on(p.safeMode), Rat(2, 10))>>
        reversed(q) == [j \in 1..Len(q) |-> q[Len(q) + 1 - j]]
    IN  /\ m.O = clamp01(Add(Rat(6, 10), SumSeq(O)))
        /\ m.O = clamp01(Add(Rat(6, 10), SumSeq(reversed(O))))
        /\ m.S = clamp01(Add(Rat(6, 10), SumSeq(S)))
        /\ m.S = clamp01(Add(Rat(6, 10), SumSeq(reversed(S))))
        /\ m.F = clamp01(Add(Rat(6, 10), When(on(p.expertise = "novice"), Rat(1, 10))))
        /\ m.I = clamp01(Add(Rat(5, 10), When(on(p.interruptButton), Rat(2, 10))))
        /\ m.A = clamp01(Add(Rat(5, 10), When(on(p.rationaleView), Rat(5, 100))))
        /\ m.X = Rat(5, 10) /\ m.Lp = Rat(8, 10) /\ m.D = Rat(4, 10)
        /\ (p.present /\ p.stakes = "high" /\ p.expertise = "novice" /\ p.confidenceBadges
              /\ ~p.safeMode /\ ~p.rationaleView)
             => (m.O = Rat(95, 100) /\ m.S = Rat(85, 100))
C13_Witness ==
  /\ fnOut.fn = "computeModifiers"
  /\ fnIn.profile.present /\ fnIn.profile.stakes = "high"
  /\ fnIn.profile.expertise = "novice" /\ fnIn.profile.confidenceBadges
  /\ fnIn.profile.rationaleView /\ fnIn.profile.safeMode
  /\ fnOut.result.O = One /\ fnOut.result.S = One

\* The ids of the level-specific guidance items and the one of each level.
LevelItemIds ==
  {"l1-2-interface-baseline", "l3-expert-controls", "l4-scaffolds", "l5-advisory-surface"}
LevelItemOf(l) ==
  CASE l \in {1, 2} -> "l1-2-interface-baseline"
    [] l = 3 -> "l3-expert-controls"
    [] l = 4 -> "l4-scaffolds"
    [] l = 5 -> "l5-advisory-surface"

\* C14: for every level in 1..5 and every modifiers and profile, the guidance
\* has exactly one level-specific item, the one of that level (so level 5
\* always has the advisory-only item), and every item carries the input level.
C14_OneLevelItem ==
  fnOut.fn = "computeGuidance" =>
    LET items == fnOut.result
        levelItems == {j \in 1..Len(items) : items[j].id \in LevelItemIds}
    IN  /\ Cardinality(levelItems) = 1
        /\ \A j \in levelItems : items[j].id = LevelItemOf(fnIn.level.n)
        /\ fnIn.level = Int2Rat(5) =>
             \E j \in 1..Len(items) : items[j].id = "l5-advisory-surface"
        /\ \A j \in 1..Len(items) : items[j].level = fnIn.level
C14_Witness ==
  /\ fnOut.fn = "computeGuidance"
  /\ fnIn.level = Int2Rat(5)
  /\ fnIn.profile.present /\ fnIn.profile.expertise = "novice" /\ fnIn.profile.stakes = "high"
  /\ Len(fnOut.result) = 4
  /\ fnOut.result[1].id = "l5-advisory-surface"

\* The T of the output of the probe that gets the same oracle answers for
\* the sample list `samples` instead of the request's own.
TWithSamples(samples) ==
  BuildOutput([input EXCEPT !.responseSamples = samples], locals, L_exact).dimensions.T
\* As many samples as the request has, all equal (entropy 0).
EqualSamples == [j \in 1..Len(input.responseSamples) |-> <<"a">>]

\* C15: with response samples, the T of the output is computed from the
\* samples' normalized entropy (T = 1 - H/H_max blended with the estimator's
\* T): a probe whose samples have entropy 1 reports another T than the probe
\* with the same oracle answers whose samples have entropy 0.
C15_TFromEntropy ==
  (Done /\ Len(input.responseSamples) > 1 /\ output.metrics.temporalEntropy = One) =>
    /\ computeTemporalMetricsFromSamples(EqualSamples).temporalEntropy = Zero
    /\ output.dimensions.T # TWithSamples(EqualSamples)

\* The request without its profile and its user expectations.
StripUserModel(in) == [in EXCEPT !.profile = NoProfile, !.userExpectations = NoExpectations]

\* The per-sample results kept for the oracle answers rs, and the locals the
\* estimator stage leaves for k and the answers rs of a completed probe.
RECURSIVE KeptResults(_)
KeptResults(rs) ==
  IF rs = <<>> THEN <<>>
  ELSE LET g == classifyWithGemini(<<rs[Len(rs)]>>, 1)
           front == KeptResults(SubSeq(rs, 1, Len(rs) - 1))
       IN  IF g.status = "threw" THEN front ELSE AcceptResult(front, g.result)
EstimateOf(k, rs) ==
  LET last == classifyWithGemini(<<rs[Len(rs)]>>, 1)
      kept == KeptResults(SubSeq(rs, 1, k))
  IN  IF k > 1 /\ kept # <<>> THEN AverageResults(Locals0, kept)
      ELSE IF last.status = "threw" THEN OuterCatch(Locals0).loc
      ELSE IF k > 1 THEN FallbackClassification(Locals0, last.result)
      ELSE SingleClassification(Locals0, last.result)

\* C16: the oracle requests of a probe are those of the same request without
\* profile and user expectations (they are determined by the system
\* description, the prompt and one response text each), and the T, C, L and
\* level the estimator stage leaves are determined by k and the oracle's
\* answers alone.
C16_RequestsIgnoreUserModel ==
  /\ \A j \in 1..Len(requests) :
       /\ requests[j] = ContentOfCall(StripUserModel(input), K, j - 1)
       /\ \E text \in SeqRange(input.responseSamples) \cup {input.response} :
            requests[j] = [systemDescription |-> IF input.systemDescription = NoString
                                                 THEN <<"Unspecified system">>
                                                 ELSE input.systemDescription,
                           prompt |-> input.prompt,
                           response |-> IF text = NoString THEN <<"(none provided)">> ELSE text]
  /\ Done =>
       LET estimate == EstimateOf(K, replies)
           loc == locals
       IN  /\ loc.dims = estimate.dims
           /\ loc.level = estimate.level
C16_Witness ==
  /\ Done /\ K > 1 /\ Len(requests) = K + 1
  /\ input.profile.present /\ input.systemDescription # NoString
  /\ Parsed(replies[K + 1]) /\ HasDims(replies[K + 1].parsed)

\* C17: for a non-empty P_t and every expectation, the mental model sums to
\* 1, gives every outcome of P_t a strictly positive mass and has at most one
\* key that is not an outcome of P_t.
C17_MentalModelIsDistribution ==
  (fnOut.fn = "constructQ_t_u" /\ MapSize(fnIn.P_t) > 0) =>
    LET Q == fnOut.result
        omega == SeqRange(fnIn.P_t.keys)
    IN  /\ SumSeq(Q.val) = One
        /\ \A x \in omega : MapHas(Q, x) /\ Gt(MapGet(Q, x), Zero)
        /\ \A j \in 1..MapSize(Q) : Gt(Q.val[j], Zero)
        /\ Cardinality(SeqRange(Q.keys)) = MapSize(Q)
        /\ Cardinality(SeqRange(Q.keys) \ omega) <= 1
C17_Witness ==
  /\ fnOut.fn = "constructQ_t_u"
  /\ MapSize(fnIn.P_t) = 2
  /\ fnIn.userExpectations.expectedOutput = <<"c">>
  /\ fnIn.userExpectations.expectedVariation = Int2Rat(2)
  /\ SeqRange(fnOut.result.keys) \ SeqRange(fnIn.P_t.keys) = {<<"c">>}
  /\ SumSeq(fnOut.result.val) = One

Min(a, b) == IF a < b THEN a ELSE b
NumSamples == Len(input.responseSamples)

\* C18 as claimed: in every probe with samples, the first k oracle calls are
\* made for the first k samples in list order.
C18_CallsForFirstKSamples ==
  \A j \in 1..Len(requests) :
    (j <= K /\ NumSamples >= 1) => requests[j].response = input.responseSamples[j]

\* C18 amended: k is min(10, number of samples) with more than one sample and
\* 1 otherwise. With k > 1 the first k calls are made for the first k samples
\* in list order and at most one more call follows, for the request's own
\* response, so there are never more than k + 1 <= 11 calls; with k = 1 there
\* is exactly one call and it carries the request's own response, also when
\* one sample was supplied.
C18_CallsBounded ==
  /\ K = (IF NumSamples > 1 THEN Min(10, NumSamples) ELSE 1)
  /\ Len(requests) <= K + 1 /\ Len(requests) <= 11
  /\ K > 1 =>
       /\ \A j \in 1..Len(requests) :
            requests[j].response = IF j <= K THEN input.responseSamples[j] ELSE input.response
       /\ Done => Len(requests) >= K
  /\ K = 1 =>
       /\ Len(requests) <= 1
       /\ pc # "idle" => (Len(requests) = 1 /\ requests[1].response = input.response)
C18_Witness ==
  /\ Done /\ NumSamples = 11 /\ K = 10
  /\ Len(requests) = 11
  /\ requests[10].response = input.responseSamples[10]
  /\ requests[11].response = input.response

\* C19: the oracle calls of a probe are issued one at a time: a call is issued
\* only when every earlier call has returned or failed, so at most one call is
\* outstanding.
C19_OneCallOutstanding ==
  /\ outstanding <= 1
  /\ Len(requests) = Len(replies) + outstanding
C19_Witness ==
  /\ pc = "sample" /\ K > 1
  /\ Len(replies) = 1 /\ replies[1].kind = "apiError"
  /\ Len(requests) = 2 /\ outstanding = 1

\* The per-sample attempts that returned all of T, C and L, and the mean of
\* field f of their answers.
Complete == {j \in 1..K : Parsed(replies[j]) /\ HasDims(replies[j].parsed)}
MeanOf(f) == Div(SumOver(Complete, [j \in Complete |-> replies[j].parsed[f]]),
                 Int2Rat(Cardinality(Complete)))
TRange ==
  LET ts == {replies[j].parsed.T : j \in Complete}
      hi == CHOOSE x \in ts : \A y \in ts : Le(y, x)
      lo == CHOOSE x \in ts : \A y \in ts : Le(x, y)
  IN  Sub(hi, lo)

\* C20: in a multi-sample probe a failed per-sample attempt does not end the
\* batch: all k samples are submitted, and when some attempt returned all of
\* T, C and L (and no expectations refine the result) C and L are the means
\* over exactly those attempts, limited to [0,1], and T is computed from their
\* mean T (0.7 of it, plus 0.3 of the stability 1 - range of their T values).
C20_FailuresSkippedInMean ==
  (Done /\ K > 1) =>
    /\ Len(requests) >= K
    /\ \A j \in 1..K : requests[j].response = input.responseSamples[j]
    /\ (Complete # {} /\ NoRefinement) =>
         /\ Len(requests) = K
         /\ output.dimensions.C = clamp01(MeanOf("C"))
         /\ output.dimensions.L = clamp01(MeanOf("L"))
         /\ output.dimensions.T =
              clamp01(Add(Mul(Rat(7, 10), clamp01(MeanOf("T"))),
                          Mul(Rat(3, 10), clamp01(Sub(One, TRange)))))
C20_Witness ==
  /\ Done /\ K = 3 /\ Len(requests) = 3
  /\ Complete = {1, 3}
  /\ replies[2].kind \in {"unparsable", "apiError"}
  /\ replies[1].parsed.C # replies[3].parsed.C
  /\ output.dimensions.C = Rat(1, 2)

\* C21 as claimed: in a multi-sample probe the fallback call is issued
\* exactly when all k per-sample attempts failed (none of them parsed).
C21_FallbackIffNoneParsed ==
  (Done /\ K > 1) =>
    (Len(requests) = K + 1 <=> \A j \in 1..K : ~Parsed(replies[j]))

\* C21 amended: in a multi-sample probe the fallback call is issued, once,
\* exactly when no per-sample attempt returned all of T, C and L (by a
\* transport failure, a parse failure or a parsed answer that lacks one of
\* them); when the fallback call fails or does not parse either, the level is
\* 2 and, with no expectations to refine them, the dimensions are the defaults.
C21_FallbackIffNoCompleteResult ==
  (Done /\ K > 1) =>
    /\ Len(requests) \in {K, K + 1}
    /\ Len(requests) = K + 1 <=> Complete = {}
    /\ Len(requests) = K + 1 =>
         /\ requests[K + 1].response = input.response
         /\ ~Parsed(replies[K + 1]) =>
              /\ output.level = Int2Rat(2)
              /\ NoRefinement => output.dimensions = DefaultDims
C21_Witness ==
  /\ Done /\ K = 3 /\ Len(requests) = 4
  /\ Parsed(replies[2]) /\ ~HasDims(replies[2].parsed)
  /\ replies[1].kind = "apiError" /\ replies[3].kind = "unparsable"
  /\ replies[4].kind = "unparsable"
  /\ output.dimensions = DefaultDims /\ output.level = Int2Rat(2)

\* The adapter's call has ended; the attempts that parsed, and those among
\* them that report a T.
AdapterEnded == fnIn.fn = "classifyWithGemini" /\ fnOut.st.status # "running"
ParsedCalls == {j \in 1..Len(fnOut.calls) : Parsed(fnOut.calls[j])}
CallsWithT == {j \in ParsedCalls : IsNum(fnOut.calls[j].parsed.T)}
StabilityOver(S) ==
  LET ts == {fnOut.calls[j].parsed.T : j \in S}
      hi == CHOOSE x \in ts : \A y \in ts : Le(y, x)
      lo == CHOOSE x \in ts : \A y \in ts : Le(x, y)
  IN  clamp01(Sub(One, Sub(hi, lo)))

\* C22 as claimed: with n >= 2 attempts the result has temporalStability
\* exactly when at least two parsed runs report a T, and then it is
\* clamp(1 - (max T - min T), 0, 1) over the reported T values.
C22_StabilityOverReportedT ==
  (AdapterEnded /\ fnOut.st.status = "returned" /\ fnIn.samples >= 2) =>
    /\ fnOut.st.result.temporalStability # undefined <=> Cardinality(CallsWithT) >= 2
    /\ Cardinality(CallsWithT) >= 2 =>
         fnOut.st.result.temporalStability = StabilityOver(CallsWithT)

\* C22 amended: with n >= 2 attempts the result has temporalStability exactly
\* when at least two runs parsed and every parsed run reports a T, and then it
\* is clamp(1 - (max T - min T), 0, 1) over the T values of the parsed runs;
\* one parsed run without T leaves the result without temporalStability.
C22_StabilityWhenAllReportT ==
  (AdapterEnded /\ fnOut.st.status = "returned" /\ fnIn.samples >= 2) =>
    /\ fnOut.st.result.temporalStability # undefined
         <=> (Cardinality(ParsedCalls) >= 2 /\ CallsWithT = ParsedCalls)
    /\ (Cardinality(ParsedCalls) >= 2 /\ CallsWithT = ParsedCalls) =>
         fnOut.st.result.temporalStability = StabilityOver(ParsedCalls)
C22_Witness ==
  /\ AdapterEnded /\ fnOut.st.status = "returned" /\ fnIn.samples = 3
  /\ Cardinality(ParsedCalls) = 3 /\ Cardinality(CallsWithT) = 2
  /\ fnOut.st.result.temporalStability = undefined

\* C23: in a multi-sample probe with successful results the stability is
\* derived as in the adapter, only from two or more results: then T is
\* clamp(0.7 * avgT + 0.3 * stability, 0, 1), and with exactly one successful
\* result no temporalStabilityFromClassifier is reported and T is that
\* result's T.
C23_StabilityNeedsTwoResults ==
  (Done /\ K > 1 /\ Complete # {} /\ NoRefinement) =>
    IF Cardinality(Complete) >= 2
    THEN /\ output.metrics.temporalStabilityFromClassifier = clamp01(Sub(One, TRange))
         /\ output.dimensions.T =
              clamp01(Add(Mul(Rat(7, 10), clamp01(MeanOf("T"))),
                          Mul(Rat(3, 10), clamp01(Sub(One, TRange)))))
    ELSE /\ output.metrics.temporalStabilityFromClassifier = undefined
         /\ output.dimensions.T = clamp01(MeanOf("T"))

\* C24: for the adapter with n >= 1 attempts: when attempt 0 fails the adapter
\* ends after exactly one oracle call, with an empty result on a parse
\* failure and by throwing on a transport failure; when attempt 0 parses, all
\* n calls are issued whatever the later attempts do, and the T, C, L, level,
\* note and rationale returned are those of attempt 0.
C24_FirstAttemptDecides ==
  (fnIn.fn = "classifyWithGemini" /\ Len(fnOut.calls) >= 1) =>
    LET first == fnOut.calls[1]
        st == fnOut.st
    IN  /\ first.kind = "unparsable" =>
             (Len(fnOut.calls) = 1 /\ st.status = "returned" /\ st.result = EmptyResult)
        /\ first.kind = "apiError" => (Len(fnOut.calls) = 1 /\ st.status = "threw")
        /\ Parsed(first) =>
             /\ Len(fnOut.calls) <= fnIn.samples
             /\ st.status = "running" <=> Len(fnOut.calls) < fnIn.samples
             /\ st.status # "threw"
             /\ st.status = "returned" =>
                  /\ Len(fnOut.calls) = fnIn.samples
                  /\ \A f \in {"T", "C", "L", "level", "note", "rationale"} :
                       st.result[f] = first.parsed[f]
C24_Witness ==
  /\ AdapterEnded /\ fnIn.samples = 3 /\ Len(fnOut.calls) = 3
  /\ Parsed(fnOut.calls[1])
  /\ fnOut.calls[2].kind = "apiError" /\ fnOut.calls[3].kind = "unparsable"
  /\ fnOut.st.status = "returned"
  /\ fnOut.st.result.T = fnOut.calls[1].parsed.T

\* C25: the temporal metrics of the output are computed over all samples of
\* the request, classified or not, whatever the oracle did: variationRate is
\* the number of distinct valid samples over the number of all samples, the
\* entropy is that of the whole list, and both are absent exactly when no
\* sample is non-empty after trimming.
C25_MetricsOverAllSamples ==
  Done =>
    LET m == output.metrics
        samples == input.responseSamples
        valid == ValidCount(samples) > 0
    IN  /\ m.temporalVariationRate # undefined <=> valid
        /\ m.temporalEntropy # undefined <=> valid
        /\ valid =>
             /\ m.temporalVariationRate =
                  Rat(Cardinality(DistinctValid(samples)), Len(samples))
             /\ m.temporalEntropy = computeTemporalMetricsFromSamples(samples).temporalEntropy
             /\ Cardinality(DistinctValid(samples)) = ValidCount(samples) =>
                  m.temporalEntropy = IF ValidCount(samples) = 1 THEN Zero ELSE One
C25_Witness ==
  /\ Done /\ NumSamples > K /\ Len(replies) = K + 1
  /\ \A j \in 1..Len(replies) : replies[j].kind = "apiError"
  /\ output.metrics.temporalVariationRate = Rat(NumSamples - 1, NumSamples)
  /\ output.metrics.temporalEntropy = One

\* C26: when a non-blank expectedOutput is given, exactly one outcome of the
\* mental model before smoothing (the anchor, equal to the expected output
\* ignoring case) carries p_anchor = clamp(concentration, 0.10, 0.95), every
\* other outcome carries (1 - p_anchor) / (number of other outcomes), and the
\* masses sum to 1 whenever another outcome exists.
AnchorMass(e) ==
  LET concentration == IF e.expectedVariation # undefined
                       THEN Sub(One, e.expectedVariation) ELSE Rat(8, 10)
  IN  IF Lt(concentration, Rat(1, 10)) THEN Rat(1, 10)
      ELSE IF Gt(concentration, Rat(95, 100)) THEN Rat(95, 100)
      ELSE concentration
AnchorGiven ==
  /\ fnOut.fn = "constructQ_t_u"
  /\ Truthy(fnIn.userExpectations.expectedOutput)
  /\ trim(fnIn.userExpectations.expectedOutput) # <<>>
C26_OneAnchorRestUniform ==
  AnchorGiven =>
    LET raw == fnOut.raw
        size == Len(raw.keys)
        p == AnchorMass(fnIn.userExpectations)
    IN  /\ \E a \in 1..size :
             /\ toLowerCase(raw.keys[a]) = toLowerCase(trim(fnIn.userExpectations.expectedOutput))
             /\ raw.val[a] = p
             /\ \A j \in (1..size) \ {a} :
                  raw.val[j] = Div(Sub(One, p), Int2Rat(size - 1))
        /\ size >= 2 => SumSeq(raw.val) = One

AllBlank(samples) == Len(samples) > 0 /\ ValidCount(samples) = 0

\* C27 (as stated): whenever the C refinement is entered P_t is non-empty and
\* C_exact is not null, so the fallback branch is never reached.
C27_FallbackNeverReached ==
  (Done /\ RefinesC(input)) =>
    /\ MapSize(P_tOf(input)) > 0
    /\ C_exactOf(input) # null
\* C27 (amended): the C refinement is entered with an empty P_t exactly when
\* every sample is blank; C_exact is null exactly then and the fallback
\* branch is reached, but the variation rate is absent there, so C is never
\* blended with an alignment value and no alignment note is written.
C27_AlignmentNeverBlended ==
  Done =>
    LET out == output
        loc == locals
    IN  /\ "C-alignment" \notin SeqRange(out.notes)
        /\ RefinesC(input) =>
             /\ C_exactOf(input) = null <=> AllBlank(input.responseSamples)
             /\ C_exactOf(input) = null =>
                  /\ out.metrics.temporalVariationRate = undefined
                  /\ out.dimensions.C = loc.dims.C
                  /\ "C-exact" \notin SeqRange(out.notes)
C27_Witness ==
  /\ Done /\ RefinesC(input) /\ C_exactOf(input) = null
  /\ branch = "single" /\ HasDims(geminiResult)
  /\ output.dimensions.C = geminiResult.C

\* The output of the same locals had the request carried no samples.
OutputWithoutSamples ==
  BuildOutput([input EXCEPT !.responseSamples = <<>>], locals, null)

\* C28 (as stated): when every supplied sample is blank, the output C and L
\* are the values reported had no samples been supplied.
C28_BlankSamplesAsNoSamples ==
  (Done /\ AllBlank(input.responseSamples)) =>
    LET out == output
        without == OutputWithoutSamples
    IN  /\ out.dimensions.C = without.dimensions.C
        /\ out.dimensions.L = without.dimensions.L
\* C28 (amended): when every supplied sample is blank, C is the value
\* reported had no samples been supplied, and so is L unless both
\* expectedOutput and a response are given: then L is
\* clamp(0.6 L + 0.4 similarity) for the Jaccard similarity of their words,
\* and the Jaccard note is written.
C28_BlankSamplesBlendJaccard ==
  (Done /\ AllBlank(input.responseSamples)) =>
    LET out == output
        without == OutputWithoutSamples
        given == /\ input.userExpectations.present
                 /\ Truthy(input.userExpectations.expectedOutput)
                 /\ Truthy(input.response)
        similarity == Jaccard(input.userExpectations.expectedOutput, input.response)
    IN  /\ out.dimensions.C = without.dimensions.C
        /\ out.metrics.temporalEntropy = undefined
        /\ out.metrics.temporalVariationRate = undefined
        /\ ~given => out.dimensions.L = without.dimensions.L /\ out.notes = without.notes
        /\ given =>
             /\ out.dimensions.L =
                  clamp01(Add(Mul(Rat(6, 10), without.dimensions.L), Mul(Rat(4, 10), similarity)))
             /\ out.notes = Append(without.notes, "L-jaccard")
C28_Witness ==
  /\ Done /\ AllBlank(input.responseSamples)
  /\ input.userExpectations.expectedOutput = <<"a">>
  /\ input.response = <<"a", " ", "c">>
  /\ branch = "single" /\ HasDims(geminiResult)
  /\ output.dimensions.L =
       Add(Mul(Rat(6, 10), geminiResult.L), Mul(Rat(4, 10), Rat(1, 2)))
  /\ output.dimensions.L # OutputWithoutSamples.dimensions.L

\* The scores the oracle reports.
Scores == {o.parsed.T : o \in LevelOutcomes} \ {undefined}

\* The level of a score by the thresholds 0.90, 0.65, 0.35 and 0.15.
LevelByThresholds(score) ==
  CASE Ge(score, Rat(90, 100)) -> 1
    [] Lt(score, Rat(90, 100)) /\ Ge(score, Rat(65, 100)) -> 2
    [] Lt(score, Rat(65, 100)) /\ Ge(score, Rat(35, 100)) -> 3
    [] Lt(score, Rat(35, 100)) /\ Ge(score, Rat(15, 100)) -> 4
    [] Lt(score, Rat(15, 100)) -> 5

\* C29: in a single classification whose result has no level, the output
\* level is the level by the thresholds of the mean of the dimensions the
\* handler holds at that point; no higher score of the grid gives a higher
\* level number; a result without T, C and L leaves the defaults and level 2.
C29_LevelFromMeanOfDims ==
  (Done /\ branch = "single" /\ geminiResult.level = undefined) =>
    LET loc == locals
        score == Mean3(loc.dims)
    IN  /\ loc.level = Int2Rat(LevelByThresholds(score))
        /\ loc.level = scoreToLevel(score)
        /\ output.level = loc.level
        /\ \A s \in Scores : Ge(s, score) => Le(scoreToLevel(s), loc.level)
        /\ HasDims(geminiResult) =>
             loc.dims = [T |-> geminiResult.T, C |-> geminiResult.C, L |-> geminiResult.L]
        /\ ~HasDims(geminiResult) => loc.dims = DefaultDims /\ loc.level = Int2Rat(2)
C29_Witness ==
  /\ Done /\ branch = "single" /\ geminiResult.level = undefined
  /\ geminiResult.T = Rat(90, 100) /\ geminiResult.C = Rat(90, 100)
  /\ geminiResult.L = Rat(90, 100)
  /\ output.level = Int2Rat(1)

\* The per-sample attempts with all of T, C and L that also report a level.
CompleteWithLevel == {j \in Complete : replies[j].parsed.level # undefined}

\* C30: a single classification (of a probe with k = 1, or the one made after
\* a resultless batch) whose result lacks one of T, C, L leaves all three
\* dimensions at the defaults 0.8, 0.7, 0.6 and still uses a level of that
\* result, limited to 1..5; in a multi-sample probe the results kept are
\* exactly the attempts with all of T, C and L, C and L are their means and
\* the level is the rounded mean of the levels they report.
C30_DimsAllOrNothing ==
  Done =>
    LET loc == locals
        out == output
    IN  /\ (branch \in {"single", "fallback"} /\ ~HasDims(geminiResult)) =>
             /\ loc.dims = [T |-> Rat(8, 10), C |-> Rat(7, 10), L |-> Rat(6, 10)]
             /\ out.dimensions = loc.dims
             /\ geminiResult.level # undefined =>
                  /\ out.level = MathMin(Int2Rat(5), MathMax(Int2Rat(1), MathRound(geminiResult.level)))
                  /\ out.level \in Levels
        /\ (branch \in {"single", "fallback"} /\ HasDims(geminiResult)) =>
             /\ loc.dims.C = geminiResult.C
             /\ loc.dims.L = geminiResult.L
        /\ branch = "averaged" =>
             /\ K > 1
             /\ Len(classificationResults) = Cardinality(Complete)
             /\ \A j \in 1..Len(classificationResults) : HasDims(classificationResults[j])
             /\ out.dimensions.C = clamp01(MeanOf("C"))
             /\ out.dimensions.L = clamp01(MeanOf("L"))
             /\ CompleteWithLevel # {} =>
                  out.level =
                    ClampLevel(Div(SumOver(CompleteWithLevel,
                                           [j \in CompleteWithLevel |-> replies[j].parsed.level]),
                                   Int2Rat(Cardinality(CompleteWithLevel))))
C30_Witness ==
  /\ Done /\ branch = "single"
  /\ geminiResult.T = Rat(9, 10) /\ geminiResult.C = undefined
  /\ geminiResult.level = Int2Rat(4)
  /\ output.dimensions = DefaultDims
  /\ output.level = Int2Rat(4)

====
